---- MODULE Spec2Model ----
(***************************************************************************)
(* Timor-Leste healthcare access optimisation: the maximum-coverage       *)
(* facility-location formulation (solve.py, inefficient_model.py), the     *)
(* two command-line drivers (solve.main, run.main) and the synthetic       *)
(* instance generator (solve.generate_data).                               *)
(*                                                                         *)
(* The MILP engine (gurobipy) is an external collaborator.  It is modelled *)
(* by its contract: binary variables, linear constraints, a maximised      *)
(* objective, and a terminal status.  A point is a pair <<x, y>>: x is the *)
(* set of sites whose x_j is 1, y the set of household-site pairs whose    *)
(* y_ij is 1.  A constraint flagged lazy is still satisfied by every       *)
(* solution the engine accepts, so it counts for feasibility like any      *)
(* other.                                                                  *)
(***************************************************************************)
EXTENDS Integers, Sequences, FiniteSets, TLC

VARIABLES
    data,     \* the instance: contents of large_data.json / the builder's argument
    entry,    \* which program runs: "solve.main", "run.main", or a caller of "build_model"
    pc,       \* position in that program
    model,    \* the engine-side model (gp.Model) and what was submitted to it
    report,   \* the RESULTS block printed by main
    gen       \* local state of generate_data

vars == <<data, entry, pc, model, report, gen>>

----------------------------------------------------------------------------
(* Bounds of the model *)

MaxPop == 2          \* populations range over 1..MaxPop
MaxBudget == 2       \* max_new_hospitals ranges over -1..MaxBudget

----------------------------------------------------------------------------
(* Generic helpers *)

Range(s) == {s[k] : k \in 1..Len(s)}

Max(S) == CHOOSE v \in S : \A w \in S : w <= v

Min2(a, b) == IF a <= b THEN a ELSE b

RECURSIVE SumSeq(_)
SumSeq(s) == IF s = <<>> THEN 0 ELSE Head(s) + SumSeq(Tail(s))

RECURSIVE SumOver(_, _)
SumOver(f, S) ==
    IF S = {} THEN 0
    ELSE LET e == CHOOSE e \in S : TRUE IN f[e] + SumOver(f, S \ {e})

----------------------------------------------------------------------------
(* The persisted instance *)

PersistedKeys ==
    {"households", "existing_hospitals", "candidate_hospitals", "all_hospitals",
     "population", "travel_distances", "distance_indicators",
     "max_travel_distance", "max_new_hospitals"}

\* Status codes of the engine (gurobipy.GRB); main tests model.Status == 2.
GRB == [LOADED |-> 1, OPTIMAL |-> 2, INFEASIBLE |-> 3, INF_OR_UNBD |-> 4,
        TIME_LIMIT |-> 9, NUMERIC |-> 12]

Households == <<"H1", "H2">>

ExistingLists == {<<>>, <<"EJ1">>, <<"EJ1", "CJ1">>}

CandidateLists == {<<>>, <<"CJ1">>, <<"CJ1", "CJ2">>}

\* Lower end of the range the generator draws max_travel_distance from.
MinTravel == 8

PairsOf(hh, sites) == {<<hh[a], sites[b]>> : a \in 1..Len(hh), b \in 1..Len(sites)}

\* An instance in the persisted format: all_hospitals = existing ++ candidate,
\* and each stored distance agrees with its indicator (1 iff distance <= S).
MkData(hh, ex, ca, pop, ind, p) ==
    [keys                |-> PersistedKeys,
     households          |-> hh,
     existing_hospitals  |-> ex,
     candidate_hospitals |-> ca,
     all_hospitals       |-> ex \o ca,
     population          |-> pop,
     travel_distances    |-> [pr \in DOMAIN ind |->
                                 IF ind[pr] = 1 THEN MinTravel ELSE MinTravel + 1],
     distance_indicators |-> ind,
     max_travel_distance |-> MinTravel,
     max_new_hospitals   |-> p]

\* Three households of 100, 200 and 50 people, one existing site in range of
\* all of them, no candidate site, a budget of zero.
CoveredByExisting ==
    MkData(<<"H1", "H2", "H3">>, <<"EJ1">>, <<>>,
           [i \in {"H1", "H2", "H3"} |->
               IF i = "H1" THEN 100 ELSE IF i = "H2" THEN 200 ELSE 50],
           [pr \in PairsOf(<<"H1", "H2", "H3">>, <<"EJ1">>) |-> 1], 0)

\* The well-formed instances: every choice of site lists, populations,
\* indicators and budget within the bounds.
IsBaseInstance(d) ==
    \E ex \in ExistingLists, ca \in CandidateLists :
        \E pop \in [Range(Households) -> 1..MaxPop],
           ind \in [PairsOf(Households, ex \o ca) -> {0, 1}],
           p \in (-1)..MaxBudget :
            d = MkData(Households, ex, ca, pop, ind, p)

\* What a hand-edited or foreign large_data.json can differ in.  A defect of the
\* top-level values is applied to every instance with unit populations, a defect
\* of one entry to those of them with a budget of one.
Restrict(f, S) == [e \in S |-> f[e]]

Defect(d, kind, pr) ==
    CASE kind = "no_population_key" ->
            [d EXCEPT !.keys = @ \ {"population"}]
      [] kind = "with_potential_key" ->
            [d EXCEPT !.keys = @ \cup {"potential_hospitals"}]
      [] kind = "no_population_entry" ->
            [d EXCEPT !.population = Restrict(@, DOMAIN @ \ {pr[1]})]
      [] kind = "no_indicator_entry" ->
            [d EXCEPT !.distance_indicators = Restrict(@, DOMAIN @ \ {pr})]
      [] kind = "no_distance_entry" ->
            [d EXCEPT !.travel_distances = Restrict(@, DOMAIN @ \ {pr})]
      [] kind = "negative_indicator" ->
            [d EXCEPT !.distance_indicators[pr] = -1]
      [] kind = "nonpositive_distance" ->
            [d EXCEPT !.max_travel_distance = 0]

KeyDefects == {"no_population_key", "with_potential_key", "nonpositive_distance"}

EntryDefects ==
    {"no_population_entry", "no_indicator_entry", "no_distance_entry",
     "negative_indicator"}

UnitPopulation == [i \in Range(Households) |-> 1]

IsDefectiveInstance(d) ==
    \E ex \in ExistingLists, ca \in CandidateLists :
        \E ind \in [PairsOf(Households, ex \o ca) -> {0, 1}] :
            \/ \E p \in (-1)..MaxBudget, kind \in KeyDefects :
                  d = Defect(MkData(Households, ex, ca, UnitPopulation, ind, p),
                             kind, <<>>)
            \/ \E kind \in EntryDefects, pr \in DOMAIN ind :
                  d = Defect(MkData(Households, ex, ca, UnitPopulation, ind, 1),
                             kind, pr)

IsInstance(d) ==
    \/ IsBaseInstance(d)
    \/ d = CoveredByExisting
    \/ IsDefectiveInstance(d)

----------------------------------------------------------------------------
(* The engine-side model *)

\* model.ObjVal is <<>> while the engine holds no solution, <<v>> once it does.
NoModel ==
    [created   |-> FALSE,
     name      |-> "",
     NumVars   |-> 0,
     xvars     |-> {},      \* keys of the dict x
     yvars     |-> {},      \* keys of the dict y
     hasObj    |-> FALSE,
     objective |-> <<>>,    \* terms coef * y[i, j], in submission order
     constrs   |-> <<>>,    \* constraints, in submission order
     optimized |-> 0,       \* number of model.optimize() calls
     Status    |-> GRB.LOADED,
     ObjVal    |-> <<>>]

\* A linear constraint as the builders submit it.  over is the list summed over.
Constr(name, i, j, over, rhs, lazy) ==
    [name |-> name, i |-> i, j |-> j, over |-> over, rhs |-> rhs, lazy |-> lazy]

Bit(b) == IF b THEN 1 ELSE 0

\* Whether point <<x, y>> satisfies constraint c.
Sat(c, x, y) ==
    CASE c.name = "existing_hospital" ->
            Bit(c.j \in x) = c.rhs
      [] c.name = "max_new_hospitals" ->
            Cardinality({k \in 1..Len(c.over) : c.over[k] \in x}) <= c.rhs
      [] c.name = "facility_open" ->
            Cardinality({k \in 1..Len(c.over) : <<c.over[k], c.j>> \in y})
                <= c.rhs * Bit(c.j \in x)
      [] c.name = "single_assignment" ->
            Cardinality({k \in 1..Len(c.over) : <<c.i, c.over[k]>> \in y}) <= c.rhs
      [] c.name = "distance_limit" ->
            Bit(<<c.i, c.j>> \in y) <= c.rhs

OnlyX == {"existing_hospital", "max_new_hospitals"}
OnlyY == {"single_assignment", "distance_limit"}

\* The feasible points of a model: every binary point meeting every constraint.
\* Each constraint is tested once: those that mention only x on x, those that
\* mention only y on y, the linking ones on the pair.
FeasiblePoints(m) ==
    LET C  == m.constrs
        xs == {x \in SUBSET m.xvars :
                 \A k \in 1..Len(C) : C[k].name \in OnlyX => Sat(C[k], x, {})}
        ys == {y \in SUBSET m.yvars :
                 \A k \in 1..Len(C) : C[k].name \in OnlyY => Sat(C[k], {}, y)}
    IN  {pt \in xs \X ys :
            \A k \in 1..Len(C) :
                C[k].name \notin (OnlyX \cup OnlyY) => Sat(C[k], pt[1], pt[2])}

ObjectiveValue(m, y) ==
    SumSeq([k \in 1..Len(m.objective) |->
              m.objective[k].coef * Bit(<<m.objective[k].i, m.objective[k].j>> \in y)])

Optimum(m) == Max({ObjectiveValue(m, pt[2]) : pt \in FeasiblePoints(m)})

----------------------------------------------------------------------------
(* The formulation builders *)

\* The keys every builder extracts before its first loop.
ExtractedKeys ==
    {"households", "existing_hospitals", "candidate_hospitals", "all_hospitals",
     "population", "distance_indicators", "max_new_hospitals"}

\* Household-site pairs in the order of: for i in households: for j in all_hospitals.
PairSeq(d) ==
    LET ns == Len(d.all_hospitals)
    IN  [k \in 1..(Len(d.households) * ns) |->
            <<d.households[((k - 1) \div ns) + 1], d.all_hospitals[((k - 1) % ns) + 1]>>]

\* x = {}; for j in all_hospitals: x[j] = addVar(...);  y likewise.
AddVars(m, d) ==
    [m EXCEPT !.NumVars = Len(d.all_hospitals) + Len(PairSeq(d)),
              !.xvars   = Range(d.all_hospitals),
              !.yvars   = Range(PairSeq(d))]

\* population[i] is looked up once per (i, j) of the double loop.
PopulationMissing(d) ==
    \E k \in 1..Len(PairSeq(d)) : PairSeq(d)[k][1] \notin DOMAIN d.population

\* quicksum(population[i] * y[i, j] for i in households for j in all_hospitals)
ObjectiveTerms(d) ==
    [k \in 1..Len(PairSeq(d)) |->
        [coef |-> d.population[PairSeq(d)[k][1]],
         i    |-> PairSeq(d)[k][1],
         j    |-> PairSeq(d)[k][2]]]

\* Constraint 1: x[j] == 1 for j in existing_hospitals.
ExistingOpen(d) ==
    [k \in 1..Len(d.existing_hospitals) |->
        Constr("existing_hospital", "", d.existing_hospitals[k], <<>>, 1, FALSE)]

\* Mutant of Budget: a strict bound, "< max_new_hospitals".
Budget_Strict(d) ==
    << Constr("max_new_hospitals", "", "", d.candidate_hospitals,
              d.max_new_hospitals - 1, FALSE) >>

\* Constraint 2: quicksum(x[j] for j in candidate_hospitals) <= max_new_hospitals.
Budget(d) ==
    << Constr("max_new_hospitals", "", "", d.candidate_hospitals,
              d.max_new_hospitals, FALSE) >>

\* Constraint 3: quicksum(y[i, j] for i in households) <= len(households) * x[j].
FacilityOpen(d) ==
    [k \in 1..Len(d.all_hospitals) |->
        Constr("facility_open", "", d.all_hospitals[k], d.households,
               Len(d.households), FALSE)]

\* Mutant of SingleAssignment: a household may be served by two sites.
SingleAssignment_Two(d) ==
    [k \in 1..Len(d.households) |->
        Constr("single_assignment", d.households[k], "", d.all_hospitals, 2, FALSE)]

\* Constraint 4: quicksum(y[i, j] for j in all_hospitals) <= 1.
SingleAssignment(d) ==
    [k \in 1..Len(d.households) |->
        Constr("single_assignment", d.households[k], "", d.all_hospitals, 1, FALSE)]

\* The first pair of the double loop whose indicator lookup raises KeyError
\* (one past the end when none does).
FirstMissingIndicator(d) ==
    LET P   == PairSeq(d)
        bad == {k \in 1..Len(P) : P[k] \notin DOMAIN d.distance_indicators}
    IN  IF bad = {} THEN Len(P) + 1
        ELSE CHOOSE k \in bad : \A l \in bad : k <= l

\* Mutant of DistanceLimitDense: the bound is the variable's own, "y[i, j] <= 1".
DistanceLimitDense_Unit(d) ==
    LET P == SubSeq(PairSeq(d), 1, FirstMissingIndicator(d) - 1)
    IN  [k \in 1..Len(P) |->
            Constr("distance_limit", P[k][1], P[k][2], <<>>, 1, FALSE)]

\* Constraint 5, dense: y[i, j] <= distance_indicators[i][j] for every pair.
DistanceLimitDense(d) ==
    LET P == SubSeq(PairSeq(d), 1, FirstMissingIndicator(d) - 1)
    IN  [k \in 1..Len(P) |->
            Constr("distance_limit", P[k][1], P[k][2], <<>>,
                   d.distance_indicators[P[k]], FALSE)]

\* Mutant of EmitLazy: the test is inverted, the pairs in range are cut off.
EmitLazy_Inverted(indicator) == indicator = 1

\* Whether the sparse builder emits a constraint for a pair.
EmitLazy(indicator) == indicator = 0

\* Constraint 5, sparse: y[i, j] <= 0, lazy, only where the indicator == 0.
DistanceLimitLazy(d) ==
    LET P    == SubSeq(PairSeq(d), 1, FirstMissingIndicator(d) - 1)
        Far(pr) == EmitLazy(d.distance_indicators[pr])
        Q    == SelectSeq(P, Far)
    IN  [k \in 1..Len(Q) |->
            Constr("distance_limit", Q[k][1], Q[k][2], <<>>, 0, TRUE)]

\* The body shared by the three builders, from the first addVar on.  It stops
\* at the first lookup that raises; what was submitted until then stays.
Formulate(m, d, lazy) ==
    LET m2 == AddVars(m, d)
        m3 == [m2 EXCEPT !.hasObj = TRUE, !.objective = ObjectiveTerms(d)]
        c5 == IF lazy THEN DistanceLimitLazy(d) ELSE DistanceLimitDense(d)
        m4 == [m3 EXCEPT !.constrs = ExistingOpen(d) \o Budget(d) \o
                                     FacilityOpen(d) \o SingleAssignment(d) \o c5]
    IN  IF PopulationMissing(d) THEN [ok |-> FALSE, model |-> m2]
        ELSE [ok |-> FirstMissingIndicator(d) > Len(PairSeq(d)), model |-> m4]

Created(name) == [NoModel EXCEPT !.created = TRUE, !.name = name]

\* inefficient_model.generate_gurobipy_model(data): extract, then gp.Model(...).
generate_gurobipy_model(d) ==
    IF ~(ExtractedKeys \subseteq d.keys) THEN [ok |-> FALSE, model |-> NoModel]
    ELSE Formulate(Created("TimorLeste_Inefficient"), d, FALSE)

\* solve.build_model(data): extract, then gp.Model(...); constraint 5 is lazy.
build_model(d) ==
    IF ~(ExtractedKeys \subseteq d.keys) THEN [ok |-> FALSE, model |-> NoModel]
    ELSE Formulate(Created("TimorLeste_Healthcare"), d, TRUE)

\* The inline build of solve.main: gp.Model(...) first, then extract.
InlineBuild(d) ==
    IF ~(ExtractedKeys \subseteq d.keys)
    THEN [ok |-> FALSE, model |-> Created("TimorLeste_Healthcare")]
    ELSE Formulate(Created("TimorLeste_Healthcare"), d, FALSE)

----------------------------------------------------------------------------
(* The drivers *)

Mains == {"solve.main", "run.main"}

Entries == Mains \cup {"build_model"}

\* The keys main prints the sizes of right after loading.
PrintedKeys(e) ==
    IF e = "solve.main"
    THEN {"households", "existing_hospitals", "candidate_hospitals", "max_new_hospitals"}
    ELSE {"households", "existing_hospitals", "potential_hospitals", "max_new_hospitals"}

\* One printed line: its fixed text and the numbers formatted into it.
Line(text, args) == [text |-> text, args |-> args]

\* Mutant of ResultLines: a non-optimal status is printed without its code.
ResultLines_NoCode(status, objval) ==
    IF status = GRB.OPTIMAL
    THEN << Line("Status: Optimal", <<>>),
            Line("Objective: {} (people covered)", objval),
            Line("Solve time: {} seconds", <<>>),
            Line("Nodes explored: {}", <<>>) >>
    ELSE << Line("Status: not optimal", <<>>),
            Line("Solve time: {} seconds", <<>>) >>

\* The RESULTS block.  Solve time and node count are measurements, not modelled.
ResultLines(status, objval) ==
    IF status = GRB.OPTIMAL
    THEN << Line("Status: Optimal", <<>>),
            Line("Objective: {} (people covered)", objval),
            Line("Solve time: {} seconds", <<>>),
            Line("Nodes explored: {}", <<>>) >>
    ELSE << Line("Status: {}", <<status>>),
            Line("Solve time: {} seconds", <<>>) >>

\* The terminal statuses the engine can end a solve of model m with.
TerminalStatuses(m) ==
    IF FeasiblePoints(m) # {}
    THEN {GRB.OPTIMAL, GRB.TIME_LIMIT, GRB.NUMERIC}
    ELSE {GRB.INFEASIBLE, GRB.INF_OR_UNBD}

Init ==
    /\ IsInstance(data)
    /\ entry \in Entries
    /\ pc = "start"
    /\ model = NoModel
    /\ report = <<>>
    /\ gen = [pc |-> "idle"]

\* main, step 1: json.load, then the four size lines.
Load ==
    /\ entry \in Mains
    /\ pc = "start"
    /\ pc' = IF PrintedKeys(entry) \subseteq data.keys THEN "loaded" ELSE "aborted_load"
    /\ UNCHANGED <<data, entry, model, report, gen>>

\* solve.main, step 2: the inline build.
BuildInline ==
    /\ entry = "solve.main"
    /\ pc = "loaded"
    /\ model' = InlineBuild(data).model
    /\ pc' = IF InlineBuild(data).ok THEN "built" ELSE "aborted_build"
    /\ UNCHANGED <<data, entry, report, gen>>

\* run.main, step 2: model = generate_gurobipy_model(data).
BuildDense ==
    /\ entry = "run.main"
    /\ pc = "loaded"
    /\ model' = generate_gurobipy_model(data).model
    /\ pc' = IF generate_gurobipy_model(data).ok THEN "built" ELSE "aborted_build"
    /\ UNCHANGED <<data, entry, report, gen>>

\* A caller's model = build_model(data).
BuildSparse ==
    /\ entry = "build_model"
    /\ pc = "start"
    /\ model' = build_model(data).model
    /\ pc' = IF build_model(data).ok THEN "built" ELSE "aborted_build"
    /\ UNCHANGED <<data, entry, report, gen>>

\* model.optimize(): one blocking call, ending in a terminal status.
Optimize ==
    /\ pc = "built"
    /\ \E st \in TerminalStatuses(model) :
          model' = [model EXCEPT
                       !.optimized = @ + 1,
                       !.Status    = st,
                       !.ObjVal    = IF st = GRB.OPTIMAL THEN <<Optimum(model)>> ELSE <<>>]
    /\ pc' = "solved"
    /\ UNCHANGED <<data, entry, report, gen>>

\* main, step 3 after the solve: the RESULTS block.
Report ==
    /\ entry \in Mains
    /\ pc = "solved"
    /\ report' = ResultLines(model.Status, model.ObjVal)
    /\ pc' = "reported"
    /\ UNCHANGED <<data, entry, model, gen>>

Next ==
    \/ Load
    \/ BuildInline
    \/ BuildDense
    \/ BuildSparse
    \/ Optimize
    \/ Report

Spec == Init /\ [][Next]_vars

----------------------------------------------------------------------------
(* Properties of the formulation *)

Pairs(d) == PairsOf(d.households, d.all_hospitals)

IndicatorsBinary(d) ==
    /\ Pairs(d) \subseteq DOMAIN d.distance_indicators
    /\ \A pr \in Pairs(d) : d.distance_indicators[pr] \in {0, 1}

SitesDisjoint(d) == Range(d.existing_hospitals) \cap Range(d.candidate_hospitals) = {}

Dense == entry \in {"solve.main", "run.main"}

\* C1: for an instance with indicators in {0,1}, the dense formulations
\* (generate_gurobipy_model, the inline build of solve.main) and the sparse-lazy
\* one (build_model) have the same optimal objective value.
C1_DenseSparseSameOptimum ==
    (pc = "solved" /\ model.Status = GRB.OPTIMAL /\ IndicatorsBinary(data)) =>
        IF Dense
        THEN model.ObjVal = <<Optimum(build_model(data).model)>>
        ELSE model.ObjVal = <<Optimum(generate_gurobipy_model(data).model)>>

\* The sparse formulation was solved to a positive optimum on an instance with
\* pairs in range and pairs out of range, with fewer constraints than the dense.
C1_Witness ==
    /\ pc = "solved" /\ entry = "build_model" /\ model.Status = GRB.OPTIMAL
    /\ IndicatorsBinary(data)
    /\ \E pr \in Pairs(data) : data.distance_indicators[pr] = 0
    /\ \E pr \in Pairs(data) : data.distance_indicators[pr] = 1
    /\ model.ObjVal # <<0>>
    /\ Len(model.constrs) < Len(generate_gurobipy_model(data).model.constrs)

\* C2: in every feasible point of a built formulation, dense or sparse-lazy,
\* no household is assigned to a site its indicator to which is 0.
C2_OutOfRangeUnassigned ==
    pc = "built" =>
        \A pt \in FeasiblePoints(model) :
            \A pr \in pt[2] : data.distance_indicators[pr] # 0

\* A sparse formulation with an out-of-range pair and a feasible point that
\* assigns some household.
C2_Witness ==
    /\ pc = "built" /\ entry = "build_model"
    /\ \E pr \in Pairs(data) : data.distance_indicators[pr] = 0
    /\ \E pt \in FeasiblePoints(model) : pt[2] # {}

\* The population that has indicator 1 to some site of the set open.
Covered(d, open) ==
    SumOver(d.population,
            {i \in Range(d.households) :
                \E j \in open : d.distance_indicators[<<i, j>>] = 1})

\* The best coverage over the sets of at most max_new_hospitals candidates.
MaxCoverage(d) ==
    Max({ Covered(d, Range(d.existing_hospitals) \cup Cs) :
            Cs \in {Cs \in SUBSET Range(d.candidate_hospitals) :
                      Cardinality(Cs) <= d.max_new_hospitals} })

\* C3: with indicators in {0,1}, disjoint site lists and a budget >= 0, the
\* optimal objective is the best coverage over the sets of at most
\* max_new_hospitals candidates, each household counted once: the whole
\* population when one existing site is in range of every household, and 0
\* when no pair is in range.
C3_OptimumIsMaxCoverage ==
    (/\ pc = "solved" /\ model.Status = GRB.OPTIMAL
     /\ IndicatorsBinary(data) /\ SitesDisjoint(data)
     /\ data.max_new_hospitals >= 0) =>
        /\ model.ObjVal = <<MaxCoverage(data)>>
        /\ (\E j \in Range(data.existing_hospitals) :
               \A i \in Range(data.households) : data.distance_indicators[<<i, j>>] = 1)
           => model.ObjVal = <<SumOver(data.population, Range(data.households))>>
        /\ (\A pr \in Pairs(data) : data.distance_indicators[pr] = 0)
           => model.ObjVal = <<0>>

\* Two candidates, a budget of one, and an optimum that is neither nothing nor
\* everybody: the budget decides what is covered.
C3_Witness ==
    /\ pc = "solved" /\ model.Status = GRB.OPTIMAL
    /\ IndicatorsBinary(data) /\ SitesDisjoint(data)
    /\ Len(data.candidate_hospitals) = 2 /\ data.max_new_hospitals = 1
    /\ model.ObjVal # <<0>>
    /\ model.ObjVal # <<SumOver(data.population, Range(data.households))>>
    /\ Covered(data, Range(data.all_hospitals))
         = SumOver(data.population, Range(data.households))

AllEntriesPresent(d) ==
    /\ Range(d.households) \subseteq DOMAIN d.population
    /\ Pairs(d) \subseteq DOMAIN d.travel_distances
    /\ Pairs(d) \subseteq DOMAIN d.distance_indicators

\* C4: a build fails whenever a population, travel-distance or indicator entry
\* is missing for a household or pair of the instance's own id lists.
C4_BuildFailsOnMissingEntry ==
    pc = "built" => AllEntriesPresent(data)

\* C5: when a build aborts, no engine model has been created and nothing has
\* been submitted to the engine.
C5_AbortBeforeEngine ==
    pc = "aborted_build" => model = NoModel

\* C7: no formulation is produced for max_travel_distance <= 0, and the
\* right-hand side of the budget constraint never exceeds the candidate count.
C7_ConfigurationChecked ==
    pc = "built" =>
        /\ data.max_travel_distance > 0
        /\ \A k \in 1..Len(model.constrs) :
              model.constrs[k].name = "max_new_hospitals"
                => model.constrs[k].rhs <= Len(data.candidate_hospitals)

OtherStatuses ==
    {GRB.LOADED, GRB.OPTIMAL, GRB.INF_OR_UNBD, GRB.TIME_LIMIT, GRB.NUMERIC}

\* C8: after a solve that ends infeasible, main reports without raising; the
\* report names the infeasible status, carries no objective value and differs
\* from the report of every other status.
C8_InfeasibleReported ==
    /\ (pc = "solved" /\ entry \in Mains /\ model.Status = GRB.INFEASIBLE)
          => ENABLED Report
    /\ (pc = "reported" /\ model.Status = GRB.INFEASIBLE) =>
          /\ report[1] = Line("Status: {}", <<GRB.INFEASIBLE>>)
          /\ \A k \in 1..Len(report) : report[k].text # "Objective: {} (people covered)"
          /\ \A st \in OtherStatuses, ov \in {<<>>, <<0>>} :
                report # ResultLines(st, ov)

\* run.main reported a solve that ended infeasible.
C8_Witness ==
    /\ pc = "reported" /\ entry = "run.main" /\ model.Status = GRB.INFEASIBLE

Complete(d) == d.keys = PersistedKeys /\ AllEntriesPresent(d)

\* C9: started on an instance in the persisted format, each main loads, builds
\* once, solves once and reports; it never aborts before the solve.
C9_SinglePass ==
    (entry \in Mains /\ Complete(data)) =>
        /\ pc \notin {"aborted_load", "aborted_build"}
        /\ model.optimized <= 1
        /\ pc = "reported" => model.optimized = 1

Overlap(d) ==
    Cardinality({k \in 1..Len(d.candidate_hospitals) :
                   d.candidate_hospitals[k] \in Range(d.existing_hospitals)})

\* C10: with a budget >= 0, indicators in {0,1} and disjoint site lists, the
\* point with the existing sites open, the candidates closed and nobody
\* assigned is feasible; and a formulation without feasible points has more
\* ids listed as both existing and candidate than the budget, or a negative
\* budget, or (dense) a negative indicator.
C10_FeasibleUnlessConflict ==
    pc = "built" =>
        /\ (/\ data.max_new_hospitals >= 0
            /\ IndicatorsBinary(data)
            /\ SitesDisjoint(data))
           => <<Range(data.existing_hospitals), {}>> \in FeasiblePoints(model)
        /\ FeasiblePoints(model) = {} =>
              \/ Overlap(data) > data.max_new_hospitals
              \/ data.max_new_hospitals < 0
              \/ Dense /\ \E pr \in Pairs(data) : data.distance_indicators[pr] < 0

\* A dense formulation that is infeasible only for its negative indicator.
C10_Witness ==
    /\ pc = "built" /\ Dense
    /\ FeasiblePoints(model) = {}
    /\ Overlap(data) <= data.max_new_hospitals
    /\ \E pr \in Pairs(data) : data.distance_indicators[pr] < 0

----------------------------------------------------------------------------
(* solve.generate_data *)
(* Lengths are in thousandths of a km until rounded, in hundredths after.  *)

GenHouseholds == 1     \* n, scaled down
GenExisting == 1       \* m, scaled down
GenCandidates == 5     \* num_new_sites, scaled down
MinNewHospitals == 5   \* lower end of random.randint(5, num_new_sites)

HNames == <<"H1", "H2", "H3">>
EJNames == <<"EJ1", "EJ2", "EJ3">>
CJNames == <<"CJ1", "CJ2", "CJ3", "CJ4", "CJ5", "CJ6", "CJ7">>

\* Samples of the draws: positions (km), the distance bound, the noise, the population.
Grid == {<<0, 0>>, <<1, 1>>}
TravelSamples == {8000, 15000}
NoiseSamples == {-10000, 4, 10000}
PopulationSamples == {50, 499}

RECURSIVE SqrtBetween(_, _, _)
SqrtBetween(n, lo, hi) ==
    IF lo = hi THEN lo
    ELSE LET mid == (lo + hi + 1) \div 2
         IN  IF mid * mid <= n THEN SqrtBetween(n, mid, hi)
             ELSE SqrtBetween(n, lo, mid - 1)

\* np.linalg.norm(a - b), in thousandths.
Norm(a, b) ==
    LET sq == (a[1] - b[1]) * (a[1] - b[1]) + (a[2] - b[2]) * (a[2] - b[2])
    IN  SqrtBetween(1000000 * sq, 0, 46340)

\* round(v, 2): thousandths to hundredths, an exact tie going to the even side.
Round2(v) ==
    LET q == v \div 10
        r == v % 10
    IN  IF r < 5 THEN q
        ELSE IF r > 5 THEN q + 1
        ELSE IF q % 2 = 0 THEN q ELSE q + 1

\* travel_distances[h][hosp] = round(float(dist + noise), 2)
PerturbedDistance(a, b, noise) == Round2(Norm(a, b) + noise)

GenIds ==
    [households          |-> SubSeq(HNames, 1, GenHouseholds),
     existing_hospitals  |-> SubSeq(EJNames, 1, GenExisting),
     candidate_hospitals |-> SubSeq(CJNames, 1, GenCandidates),
     all_hospitals       |-> SubSeq(EJNames, 1, GenExisting)
                                \o SubSeq(CJNames, 1, GenCandidates)]

GenStart ==
    [pc |-> "params", S |-> 0, p |-> 0,
     household_coords |-> <<>>, hospital_coords |-> <<>>,
     population |-> <<>>, travel_distances |-> <<>>, next |-> 1]

InitGen ==
    /\ data = [keys |-> {}]
    /\ entry = "generate_data"
    /\ pc = "start"
    /\ model = NoModel
    /\ report = <<>>
    /\ gen = GenStart

\* S = round(random.uniform(8, 15), 2); p = min(random.randint(5, k), k)
GenParams ==
    /\ gen.pc = "params"
    /\ \E s \in TravelSamples, r \in MinNewHospitals..GenCandidates :
          gen' = [gen EXCEPT !.pc = "coords",
                             !.S  = Round2(s),
                             !.p  = Min2(r, GenCandidates)]
    /\ UNCHANGED <<data, entry, pc, model, report>>

\* household_coords, hospital_coords = np.random.uniform(0, 100, ...)
GenCoords ==
    /\ gen.pc = "coords"
    /\ \E hc \in [1..GenHouseholds -> Grid],
          sc \in [1..(GenExisting + GenCandidates) -> Grid] :
          gen' = [gen EXCEPT !.pc = "population",
                             !.household_coords = hc,
                             !.hospital_coords  = sc]
    /\ UNCHANGED <<data, entry, pc, model, report>>

\* population = {h: int(np.random.randint(50, 500)) for h in households}
GenPopulation ==
    /\ gen.pc = "population"
    /\ \E pop \in [Range(GenIds.households) -> PopulationSamples] :
          gen' = [gen EXCEPT !.pc = "distances", !.population = pop]
    /\ UNCHANGED <<data, entry, pc, model, report>>

\* One iteration of the double loop over households and all_hospitals.
GenDistance ==
    /\ gen.pc = "distances"
    /\ gen.next <= Len(PairSeq(GenIds))
    /\ LET ns == Len(GenIds.all_hospitals)
           i  == ((gen.next - 1) \div ns) + 1
           j  == ((gen.next - 1) % ns) + 1
       IN  \E noise \in NoiseSamples :
              gen' = [gen EXCEPT
                        !.next = @ + 1,
                        !.travel_distances =
                            @ @@ (PairSeq(GenIds)[gen.next] :>
                                    PerturbedDistance(gen.household_coords[i],
                                                      gen.hospital_coords[j], noise))]
    /\ UNCHANGED <<data, entry, pc, model, report>>

\* distance_indicators[h][hosp] = int(travel_distances[h][hosp] <= S), and return.
GenReturn ==
    /\ gen.pc = "distances"
    /\ gen.next > Len(PairSeq(GenIds))
    /\ gen' = [gen EXCEPT !.pc = "done"]
    /\ data' = [keys                |-> PersistedKeys,
                households          |-> GenIds.households,
                existing_hospitals  |-> GenIds.existing_hospitals,
                candidate_hospitals |-> GenIds.candidate_hospitals,
                all_hospitals       |-> GenIds.all_hospitals,
                population          |-> gen.population,
                travel_distances    |-> gen.travel_distances,
                distance_indicators |-> [pr \in DOMAIN gen.travel_distances |->
                                            Bit(gen.travel_distances[pr] <= gen.S)],
                max_travel_distance |-> gen.S,
                max_new_hospitals   |-> gen.p]
    /\ UNCHANGED <<entry, pc, model, report>>

NextGen ==
    \/ GenParams
    \/ GenCoords
    \/ GenPopulation
    \/ GenDistance
    \/ GenReturn

SpecGen == InitGen /\ [][NextGen]_vars

\* C6: every travel distance of a generated instance is non-negative.
C6_DistancesNonNegative ==
    gen.pc = "done" =>
        \A pr \in DOMAIN data.travel_distances : data.travel_distances[pr] >= 0

====
